---- MODULE Spec2Model ----
(***************************************************************************)
(* Model of ylt::util::map_sharded_t and ylt::util::internal::map_lock_t   *)
(* (include/ylt/util/map_sharded.hpp): a map split over shard_num shards,  *)
(* each shard a lazily allocated map guarded by its own mutex, plus one    *)
(* relaxed atomic element counter.                                         *)
(*                                                                         *)
(* Every std::lock_guard scope is two steps: Lock (the constructor) and    *)
(* the body, which ends by releasing the mutex (the destructor runs at the *)
(* return).  The relaxed fetch_add / fetch_sub on size_ are steps of their *)
(* own, outside every lock, as in the source.                              *)
(***************************************************************************)
EXTENDS Integers, Sequences, FiniteSets, TLC

\* ---- bounds of the model ------------------------------------------------
\* MaxCalls: calls of the public interface made in one behaviour.
\* NumKeys: keys the callers use.  Two caller threads; two element values,
\* which is what the predicates (value == v) need to tell entries apart.
MaxCalls == 3
NumKeys == 3

Threads == {1, 2}
Keys == 0..(NumKeys - 1)
Vals == {1, 2}
\* every call constructs at most one element, so MaxCalls cells always suffice
Elems == 1..MaxCalls

\* map_sharded_t(size_t shard_num) : shards_(shard_num)
shard_num == 2
ShardIds == 0..(shard_num - 1)

\* The caller-supplied Hash functor: the identity on the integer keys.
Hash(k) == k

\* std::atomic<std::size_t>: 64 bits, kept as little-endian 16-bit limbs.
SizeBits == 64
Limb == 2^16
NumLimbs == SizeBits \div 16
Limbs == 1..NumLimbs

NoThread == 0
NullHandle == 0
\* predicates and stop conditions inspect the element behind the handle
\* (value == v, for each v, and the always-true predicate of copy())
AlwaysTrue == Vals
ValuePreds == {{v} : v \in Vals}
PredSets == ValuePreds \cup {AlwaysTrue}

VARIABLES
  mtx,      \* shard -> thread holding *mtx_, or NoThread
  map_,     \* shard -> [null: unique_ptr is empty, tbl: key -> handle]
  payload,  \* element -> value it was constructed with (0: not alive)
  refcnt,   \* element -> number of shared_ptr copies (0: released)
  size_,    \* the 64-bit counter, as limbs
  crashed,  \* the process was terminated by a fault
  op, pc, key, val, pred, vis, idx, result, total, ret, out,   \* per thread
  calls,    \* number of calls begun so far
  nIns, nRem,  \* history: entries inserted / removed so far
  wins, winVal, \* history: per key, inserted=true returns since last absent
  lin,      \* history: key -> value a sequential map would hold (0: absent),
            \* advanced where a call takes effect, by the contract alone
  pre       \* history: the shards as a call found them, kept while no other
            \* thread starts a mutating call

vars == <<mtx, map_, payload, refcnt, size_, crashed, op, pc, key, val, pred,
          vis, idx,
          result, total, ret, out, calls, nIns, nRem, wins, winVal, lin, pre>>

shared == <<mtx, map_, payload, refcnt, size_>>
hist == <<nIns, nRem, wins, winVal, lin>>
locals == <<key, val, pred, vis, idx, result, total, ret, out>>

\* ---- std::atomic<std::size_t> arithmetic (wraps modulo 2^64) ------------
RECURSIVE AddLimbs(_, _, _)
AddLimbs(s, i, carry) ==
  IF i > NumLimbs \/ carry = 0 THEN s
  ELSE LET v == s[i] + carry
       IN AddLimbs([s EXCEPT ![i] = v % Limb], i + 1, v \div Limb)

RECURSIVE SubLimbs(_, _, _)
SubLimbs(s, i, borrow) ==
  IF i > NumLimbs \/ borrow = 0 THEN s
  ELSE LET v == s[i] - borrow
       IN SubLimbs([s EXCEPT ![i] = v % Limb], i + 1, IF v < 0 THEN 1 ELSE 0)

\* size_t value n < 2^16 as a counter value
SizeT(n) == [i \in Limbs |-> IF i = 1 THEN n ELSE 0]

fetch_add(s, n) == AddLimbs(s, 1, n)

\* variant: a decrement by one whatever the removed count
fetch_sub_one(s, n) == SubLimbs(s, 1, 1)
fetch_sub(s, n) == SubLimbs(s, 1, n)

\* ---- std::shared_ptr control blocks -------------------------------------
Heap == [pl |-> payload, rc |-> refcnt]

\* make_shared / in-place construction of the mapped shared_ptr from args
FreeElem(h) == CHOOSE e \in Elems : h.rc[e] = 0 /\ \A f \in Elems : f < e => h.rc[f] > 0
Construct(h, v) ==
  [pl |-> [h.pl EXCEPT ![FreeElem(h)] = v], rc |-> [h.rc EXCEPT ![FreeElem(h)] = 1]]

\* variant: the handle is handed out without taking a share
CopyHandle_borrowed(h, e) == h

\* copy construction of a shared_ptr: one more owner
CopyHandle(h, e) == [h EXCEPT !.rc[e] = @ + 1]

\* destruction of a shared_ptr: the element goes with the last owner
DestroyHandle(h, e) ==
  IF h.rc[e] <= 1
    THEN [pl |-> [h.pl EXCEPT ![e] = 0], rc |-> [h.rc EXCEPT ![e] = 0]]
    ELSE [h EXCEPT !.rc[e] = @ - 1]

RECURSIVE DestroyAll(_, _)
DestroyAll(h, hs) ==
  IF hs = <<>> THEN h ELSE DestroyAll(DestroyHandle(h, Head(hs)), Tail(hs))

RECURSIVE CopyAll(_, _)
CopyAll(h, hs) ==
  IF hs = <<>> THEN h ELSE CopyAll(CopyHandle(h, Head(hs)), Tail(hs))

\* ---- the underlying single-shard map (Map template parameter) -----------
EmptyTbl == [k \in {} |-> NullHandle]
TblPut(m, k, e) == [x \in (DOMAIN m) \cup {k} |-> IF x = k THEN e ELSE m[x]]
TblDrop(m, ks) == [x \in (DOMAIN m) \ ks |-> m[x]]

\* all iteration orders of a set of keys (the order of a map is its own)
RECURSIVE Orders(_)
Orders(S) ==
  IF S = {} THEN {<<>>}
  ELSE UNION {{<<k>> \o o : o \in Orders(S \ {k})} : k \in S}

SeqOfSet(S) == CHOOSE o \in Orders(S) : \A i, j \in DOMAIN o : i < j => o[i] < o[j]
HandlesOf(m, ks) == [i \in DOMAIN SeqOfSet(ks) |-> m[SeqOfSet(ks)[i]]]

\* ---- map_sharded_t::get_sharded -----------------------------------------
\* variant: the shard is picked from the upper bits of the hash
get_sharded_half(hash) == (hash \div 2) % shard_num
get_sharded(hash) == hash % shard_num

\* ---- thread bookkeeping -------------------------------------------------
Ret(kd, n, ins) == [kind |-> kd, n |-> n, ins |-> ins, sz |-> SizeT(0), seen |-> 0]
NoRet == Ret("none", 0, FALSE)
NoSnap == [by |-> NoThread, ent |-> [s \in ShardIds |-> EmptyTbl], size |-> SizeT(0)]

Entries(s) ==
  [k \in DOMAIN map_[s].tbl |-> [h |-> map_[s].tbl[k], v |-> payload[map_[s].tbl[k]]]]
Snapshot(t) == [by |-> t, ent |-> [s \in ShardIds |-> Entries(s)], size |-> size_]

InFlight(t) == pc[t] \notin {"idle", "done"}
Mutators == {"try_emplace", "erase", "erase_if", "erase_one"}

Init ==
  /\ mtx = [s \in ShardIds |-> NoThread]
  /\ map_ = [s \in ShardIds |-> [null |-> TRUE, tbl |-> EmptyTbl]]
  /\ payload = [e \in Elems |-> 0]
  /\ refcnt = [e \in Elems |-> 0]
  /\ size_ = SizeT(0)     \* C++20 std::atomic() value-initialises
  /\ crashed = FALSE
  /\ op = [t \in Threads |-> "idle"]
  /\ pc = [t \in Threads |-> "idle"]
  /\ key = [t \in Threads |-> 0]
  /\ val = [t \in Threads |-> 0]
  /\ pred = [t \in Threads |-> {}]
  /\ vis = [t \in Threads |-> "none"]
  /\ idx = [t \in Threads |-> 0]
  /\ result = [t \in Threads |-> 0]
  /\ total = [t \in Threads |-> 0]
  /\ ret = [t \in Threads |-> NoRet]
  /\ out = [t \in Threads |-> <<>>]
  /\ calls = 0
  /\ nIns = 0
  /\ nRem = 0
  /\ wins = [k \in Keys |-> 0]
  /\ winVal = [k \in Keys |-> 0]
  /\ lin = [k \in Keys |-> 0]
  /\ pre = NoSnap

\* A caller enters an operation of map_sharded_t.
Begin(t, o, first, k, v, p, vk, s) ==
  /\ ~crashed
  /\ pc[t] = "idle"
  /\ calls < MaxCalls
  /\ calls' = calls + 1
  /\ op' = [op EXCEPT ![t] = o]
  /\ pc' = [pc EXCEPT ![t] = first]
  /\ key' = [key EXCEPT ![t] = k]
  /\ val' = [val EXCEPT ![t] = v]
  /\ pred' = [pred EXCEPT ![t] = p]
  /\ vis' = [vis EXCEPT ![t] = vk]
  /\ idx' = [idx EXCEPT ![t] = s]
  /\ pre' = IF o \in {"erase_if", "erase_one", "copy"}
                   /\ \A u \in Threads \ {t} : ~(InFlight(u) /\ op[u] \in Mutators)
              THEN Snapshot(t)
              ELSE IF o \in Mutators THEN NoSnap ELSE pre
  /\ UNCHANGED <<shared, crashed, result, total, ret, out, hist>>

\* variant: the mutex is taken without waiting for its holder
Lock_barging(t) ==
  /\ ~crashed
  /\ pc[t] = "lock"
  /\ mtx' = [mtx EXCEPT ![idx[t]] = t]
  /\ pc' = [pc EXCEPT ![t] = "cs"]
  /\ UNCHANGED <<map_, payload, refcnt, size_, crashed, op, locals, calls, hist, pre>>

\* std::lock_guard lock(*mtx_) of the shard the thread is at
Lock(t) ==
  /\ ~crashed
  /\ pc[t] = "lock"
  /\ mtx[idx[t]] = NoThread
  /\ mtx' = [mtx EXCEPT ![idx[t]] = t]
  /\ pc' = [pc EXCEPT ![t] = "cs"]
  /\ UNCHANGED <<map_, payload, refcnt, size_, crashed, op, locals, calls, hist, pre>>

\* the guard conditions of a lock_guard scope of operation o
InCS(t, os) == ~crashed /\ pc[t] = "cs" /\ op[t] \in os /\ mtx[idx[t]] = t
\* variant: the guard's scope ends without releasing the mutex
Unlock_held(t) == UNCHANGED mtx
Unlock(t) == mtx' = [mtx EXCEPT ![idx[t]] = NoThread]

\* ---- map_lock_t (one shard) ---------------------------------------------
\* Map& visit_map(): allocate the storage on first use
visit_map(M) == IF M.null THEN [null |-> FALSE, tbl |-> EmptyTbl] ELSE M

\* variant: insert-or-assign, an existing entry gets the new value
map_lock_t_try_emplace_assign(M, h, k, v) ==
  LET V == visit_map(M)
      h1 == IF k \in DOMAIN V.tbl THEN DestroyHandle(h, V.tbl[k]) ELSE h
  IN [map |-> [V EXCEPT !.tbl = TblPut(V.tbl, k, FreeElem(h1))],
      heap |-> Construct(h1, v), second |-> k \notin DOMAIN V.tbl]

\* map_lock_t::try_emplace: insert only if absent, constructing from args
map_lock_t_try_emplace(M, h, k, v) ==
  LET V == visit_map(M)
  IN IF k \in DOMAIN V.tbl
       THEN [map |-> V, heap |-> h, second |-> FALSE]
       ELSE [map |-> [V EXCEPT !.tbl = TblPut(V.tbl, k, FreeElem(h))],
             heap |-> Construct(h, v), second |-> TRUE]

\* map_lock_t::find: the outcomes of one call.  With the storage allocated
\* and the key absent, map_->find(key) is end() and it->second reads through
\* the end iterator: undefined behaviour, which a build turns into a fault,
\* a null handle or a handle made of whatever lies behind the sentinel.
map_lock_t_find(M, h, k) ==
  IF M.null
    THEN {[heap |-> h, ret |-> Ret("null", NullHandle, FALSE)]}
    ELSE IF k \in DOMAIN M.tbl
      THEN {[heap |-> CopyHandle(h, M.tbl[k]),
             ret |-> [Ret("handle", M.tbl[k], FALSE) EXCEPT !.seen = h.pl[M.tbl[k]]]]}
      ELSE {[heap |-> h, ret |-> Ret(u, NullHandle, FALSE)] :
              u \in {"null", "garbage", "crash"}}

\* variant: the storage is obtained through visit_map, allocating it
map_lock_t_erase_alloc(M, h, k) ==
  LET V == visit_map(M)
  IN IF k \in DOMAIN V.tbl
       THEN [map |-> [V EXCEPT !.tbl = TblDrop(V.tbl, {k})],
             heap |-> DestroyHandle(h, V.tbl[k]), n |-> 1]
       ELSE [map |-> V, heap |-> h, n |-> 0]

\* variant: reports the removal but leaves the entry in the shard
map_lock_t_erase_keep(M, h, k) ==
  IF M.null
    THEN [map |-> M, heap |-> h, n |-> 0]
    ELSE [map |-> M, heap |-> h, n |-> IF k \in DOMAIN M.tbl THEN 1 ELSE 0]

\* map_lock_t::erase
map_lock_t_erase(M, h, k) ==
  IF M.null
    THEN [map |-> M, heap |-> h, n |-> 0]
    ELSE IF k \in DOMAIN M.tbl
      THEN [map |-> [M EXCEPT !.tbl = TblDrop(M.tbl, {k})],
            heap |-> DestroyHandle(h, M.tbl[k]), n |-> 1]
      ELSE [map |-> M, heap |-> h, n |-> 0]

\* variant: one match empties the shard
Matching_shard(M, h, P) ==
  IF \E k \in DOMAIN M.tbl : h.pl[M.tbl[k]] \in P THEN DOMAIN M.tbl ELSE {}

\* the entries of a shard a predicate on the value holds for
Matching(M, h, P) == {k \in DOMAIN M.tbl : h.pl[M.tbl[k]] \in P}

\* map_lock_t::erase_if: std::erase_if over the whole shard
map_lock_t_erase_if(M, h, P) ==
  IF M.null
    THEN [map |-> M, heap |-> h, n |-> 0, gone |-> {}]
    ELSE [map |-> [M EXCEPT !.tbl = TblDrop(M.tbl, Matching(M, h, P))],
          heap |-> DestroyAll(h, HandlesOf(M.tbl, Matching(M, h, P))),
          n |-> Cardinality(Matching(M, h, P)),
          gone |-> Matching(M, h, P)]

\* ---- history updates ----------------------------------------------------
Removed(ks) ==
  /\ nRem' = nRem + Cardinality(ks)
  /\ wins' = [k \in Keys |-> IF k \in ks THEN 0 ELSE wins[k]]
  /\ winVal' = [k \in Keys |-> IF k \in ks THEN 0 ELSE winVal[k]]
  /\ UNCHANGED nIns

\* the sequential map: try_emplace keeps what is there, erase removes the
\* key, a predicate removal takes the matching keys routed to shard s
SeqEmplace(k, v) == lin' = [lin EXCEPT ![k] = IF @ = 0 THEN v ELSE @]
SeqErase(k) == lin' = [lin EXCEPT ![k] = 0]
SeqEraseIf(s, P) ==
  lin' = [k \in Keys |-> IF Hash(k) % shard_num = s /\ lin[k] \in P
                           THEN 0 ELSE lin[k]]

Done(t) == pc' = [pc EXCEPT ![t] = "done"]

\* ---- map_sharded_t::try_emplace -----------------------------------------
try_emplace_call(t, k, v) ==
  /\ op[t] = "idle"
  /\ Begin(t, "try_emplace", "lock", k, v, {}, "none", get_sharded(Hash(k)))

try_emplace_cs(t) ==
  /\ InCS(t, {"try_emplace"})
  /\ LET r == map_lock_t_try_emplace(map_[idx[t]], Heap, key[t], val[t])
     IN /\ map_' = [map_ EXCEPT ![idx[t]] = r.map]
        /\ payload' = r.heap.pl
        /\ refcnt' = r.heap.rc
        /\ result' = [result EXCEPT ![t] = IF r.second THEN 1 ELSE 0]
        /\ ret' = [ret EXCEPT ![t] = Ret("entry", key[t], r.second)]
        /\ pc' = [pc EXCEPT ![t] = IF r.second THEN "fetch_add" ELSE "done"]
        /\ nIns' = nIns + (IF r.second THEN 1 ELSE 0)
        /\ wins' = [wins EXCEPT ![key[t]] = @ + (IF r.second THEN 1 ELSE 0)]
        /\ winVal' = [winVal EXCEPT ![key[t]] = IF r.second THEN val[t] ELSE @]
        /\ SeqEmplace(key[t], val[t])
  /\ Unlock(t)
  /\ UNCHANGED <<size_, crashed, op, key, val, pred, vis, idx, total, out, calls, nRem, pre>>

\* variant: an insertion is not counted
try_emplace_fetch_add_skip(t) ==
  /\ ~crashed
  /\ pc[t] = "fetch_add"
  /\ Done(t)
  /\ UNCHANGED <<shared, crashed, op, locals, calls, hist, pre>>

try_emplace_fetch_add(t) ==
  /\ ~crashed
  /\ pc[t] = "fetch_add"
  /\ size_' = fetch_add(size_, 1)
  /\ Done(t)
  /\ UNCHANGED <<mtx, map_, payload, refcnt, crashed, op, locals, calls, hist, pre>>

\* ---- map_sharded_t::size ------------------------------------------------
size_call(t) ==
  /\ ~crashed
  /\ pc[t] = "idle"
  /\ calls < MaxCalls
  /\ calls' = calls + 1
  /\ op' = [op EXCEPT ![t] = "size"]
  /\ ret' = [ret EXCEPT ![t] = [Ret("size", 0, FALSE) EXCEPT !.sz = size_]]
  /\ Done(t)
  /\ UNCHANGED <<shared, crashed, pre, key, val, pred, vis, idx, result, total, out, hist>>

\* ---- map_sharded_t::find ------------------------------------------------
find_call(t, k) ==
  /\ op[t] = "idle"
  /\ Begin(t, "find", "lock", k, 0, {}, "none", get_sharded(Hash(k)))

find_cs(t) ==
  /\ InCS(t, {"find"})
  /\ \E r \in map_lock_t_find(map_[idx[t]], Heap, key[t]) :
        /\ payload' = r.heap.pl
        /\ refcnt' = r.heap.rc
        /\ ret' = [ret EXCEPT ![t] = r.ret]
        /\ crashed' = (r.ret.kind = "crash")
        /\ pc' = [pc EXCEPT ![t] = IF r.ret.kind = "crash" THEN "fault" ELSE "done"]
  /\ Unlock(t)
  /\ UNCHANGED <<map_, size_, op, key, val, pred, vis, idx, result, total, out, calls, hist, pre>>

\* ---- map_sharded_t::erase -----------------------------------------------
erase_call(t, k) ==
  /\ op[t] = "idle"
  /\ Begin(t, "erase", "lock", k, 0, {}, "none", get_sharded(Hash(k)))

erase_cs(t) ==
  /\ InCS(t, {"erase"})
  /\ LET r == map_lock_t_erase(map_[idx[t]], Heap, key[t])
     IN /\ map_' = [map_ EXCEPT ![idx[t]] = r.map]
        /\ payload' = r.heap.pl
        /\ refcnt' = r.heap.rc
        /\ result' = [result EXCEPT ![t] = r.n]
        /\ ret' = [ret EXCEPT ![t] = Ret("count", r.n, FALSE)]
        /\ pc' = [pc EXCEPT ![t] = IF r.n # 0 THEN "fetch_sub" ELSE "done"]
        /\ Removed(IF r.n # 0 THEN {key[t]} ELSE {})
        /\ SeqErase(key[t])
  /\ Unlock(t)
  /\ UNCHANGED <<size_, crashed, op, key, val, pred, vis, idx, total, out, calls, pre>>

erase_fetch_sub(t) ==
  /\ ~crashed
  /\ pc[t] = "fetch_sub"
  /\ op[t] = "erase"
  /\ size_' = fetch_sub(size_, result[t])
  /\ Done(t)
  /\ UNCHANGED <<mtx, map_, payload, refcnt, crashed, op, locals, calls, hist, pre>>

\* the loop over the shards: for (auto& map : shards_)
NextShard(t) ==
  /\ idx[t] + 1 < shard_num
  /\ idx' = [idx EXCEPT ![t] = @ + 1]
  /\ pc' = [pc EXCEPT ![t] = "lock"]
LastShard(t) == idx[t] + 1 >= shard_num

\* ---- map_sharded_t::erase_if --------------------------------------------
\* (auto total = 0 is an int; it holds the removed counts, far below 2^31)
erase_if_call(t, P) ==
  /\ op[t] = "idle"
  /\ Begin(t, "erase_if", "lock", 0, 0, P, "none", 0)

erase_if_cs(t) ==
  /\ InCS(t, {"erase_if"})
  /\ LET r == map_lock_t_erase_if(map_[idx[t]], Heap, pred[t])
     IN /\ map_' = [map_ EXCEPT ![idx[t]] = r.map]
        /\ payload' = r.heap.pl
        /\ refcnt' = r.heap.rc
        /\ result' = [result EXCEPT ![t] = r.n]
        /\ Removed(r.gone)
        /\ SeqEraseIf(idx[t], pred[t])
  /\ pc' = [pc EXCEPT ![t] = "fetch_sub"]
  /\ Unlock(t)
  /\ UNCHANGED <<size_, crashed, op, key, val, pred, vis, idx, total, ret, out, calls, pre>>

\* variant: the loop leaves at the first shard that removed something
erase_if_fetch_sub_break(t) ==
  /\ ~crashed
  /\ pc[t] = "fetch_sub"
  /\ op[t] = "erase_if"
  /\ total' = [total EXCEPT ![t] = @ + result[t]]
  /\ size_' = fetch_sub(size_, result[t])
  /\ \/ result[t] = 0 /\ NextShard(t) /\ UNCHANGED ret
     \/ /\ result[t] # 0 \/ LastShard(t)
        /\ Done(t)
        /\ ret' = [ret EXCEPT ![t] = Ret("count", total'[t], FALSE)]
        /\ UNCHANGED idx
  /\ UNCHANGED <<mtx, map_, payload, refcnt, crashed, op, key, val, pred, vis,
                 result, out, calls, hist, pre>>

erase_if_fetch_sub(t) ==
  /\ ~crashed
  /\ pc[t] = "fetch_sub"
  /\ op[t] = "erase_if"
  /\ total' = [total EXCEPT ![t] = @ + result[t]]
  /\ size_' = fetch_sub(size_, result[t])
  /\ \/ NextShard(t) /\ UNCHANGED ret
     \/ /\ LastShard(t)
        /\ Done(t)
        /\ ret' = [ret EXCEPT ![t] = Ret("count", total'[t], FALSE)]
        /\ UNCHANGED idx
  /\ UNCHANGED <<mtx, map_, payload, refcnt, crashed, op, key, val, pred, vis,
                 result, out, calls, hist, pre>>

\* ---- map_sharded_t::erase_one -------------------------------------------
erase_one_call(t, P) ==
  /\ op[t] = "idle"
  /\ Begin(t, "erase_one", "lock", 0, 0, P, "none", 0)

erase_one_cs(t) ==
  /\ InCS(t, {"erase_one"})
  /\ LET r == map_lock_t_erase_if(map_[idx[t]], Heap, pred[t])
     IN /\ map_' = [map_ EXCEPT ![idx[t]] = r.map]
        /\ payload' = r.heap.pl
        /\ refcnt' = r.heap.rc
        /\ result' = [result EXCEPT ![t] = r.n]
        /\ Removed(r.gone)
        /\ SeqEraseIf(idx[t], pred[t])
        /\ \/ /\ r.n # 0
              /\ pc' = [pc EXCEPT ![t] = "fetch_sub"]
              /\ UNCHANGED <<idx, ret>>
           \/ /\ r.n = 0
              /\ NextShard(t)
              /\ UNCHANGED ret
           \/ /\ r.n = 0
              /\ LastShard(t)
              /\ Done(t)
              /\ ret' = [ret EXCEPT ![t] = Ret("count", total[t], FALSE)]
              /\ UNCHANGED idx
  /\ Unlock(t)
  /\ UNCHANGED <<size_, crashed, op, key, val, pred, vis, total, out, calls, pre>>

\* variant: no break, the scan goes on to the next shard
erase_one_fetch_sub_nobreak(t) ==
  /\ ~crashed
  /\ pc[t] = "fetch_sub"
  /\ op[t] = "erase_one"
  /\ total' = [total EXCEPT ![t] = @ + result[t]]
  /\ size_' = fetch_sub(size_, result[t])
  /\ \/ NextShard(t) /\ UNCHANGED ret
     \/ /\ LastShard(t)
        /\ Done(t)
        /\ ret' = [ret EXCEPT ![t] = Ret("count", total'[t], FALSE)]
        /\ UNCHANGED idx
  /\ UNCHANGED <<mtx, map_, payload, refcnt, crashed, op, key, val, pred, vis,
                 result, out, calls, hist, pre>>

erase_one_fetch_sub(t) ==
  /\ ~crashed
  /\ pc[t] = "fetch_sub"
  /\ op[t] = "erase_one"
  /\ total' = [total EXCEPT ![t] = @ + result[t]]
  /\ size_' = fetch_sub(size_, result[t])
  /\ Done(t)
  /\ ret' = [ret EXCEPT ![t] = Ret("count", total'[t], FALSE)]
  /\ UNCHANGED <<mtx, map_, payload, refcnt, crashed, op, key, val, pred, vis,
                 idx, result, out, calls, hist, pre>>

\* ---- map_lock_t::for_each -----------------------------------------------
\* A visitor is void-producing ("void") or boolean-producing ("bool"); the
\* boolean one answers false (stop) on an entry whose element is in stop.
Visitor(h, e, stop) == h.pl[e] \notin stop
Visit(k, e, r) == [k |-> k, h |-> e, r |-> r]

\* for (auto& e : *map_) { ... }: the entries the visitor is invoked on
RECURSIVE for_each_loop(_, _, _, _, _, _)
for_each_loop(M, h, rest, vk, stop, seen) ==
  IF rest = <<>> THEN seen
  ELSE LET k == Head(rest)
       IN IF vk = "bool"
            THEN IF ~Visitor(h, M.tbl[k], stop)
                   THEN Append(seen, Visit(k, M.tbl[k], "false"))
                   ELSE for_each_loop(M, h, Tail(rest), vk, stop,
                                      Append(seen, Visit(k, M.tbl[k], "true")))
            ELSE for_each_loop(M, h, Tail(rest), vk, stop,
                               Append(seen, Visit(k, M.tbl[k], "void")))

\* bool for_each(Func&& op): the break leaves the loop and control reaches
\* the return true after it; the return false behind the break is dead.
map_lock_t_for_each(M, h, ord, vk, stop) ==
  IF M.null
    THEN [visited |-> <<>>, ret |-> TRUE]
    ELSE [visited |-> for_each_loop(M, h, ord, vk, stop, <<>>), ret |-> TRUE]

RECURSIVE for_each_const_loop(_, _, _, _, _, _)
for_each_const_loop(M, h, rest, vk, stop, seen) ==
  IF rest = <<>> THEN seen
  ELSE LET k == Head(rest)
       IN IF vk = "bool"
            THEN IF ~Visitor(h, M.tbl[k], stop)
                   THEN Append(seen, Visit(k, M.tbl[k], "false"))
                   ELSE for_each_const_loop(M, h, Tail(rest), vk, stop,
                                            Append(seen, Visit(k, M.tbl[k], "true")))
            ELSE for_each_const_loop(M, h, Tail(rest), vk, stop,
                                     Append(seen, Visit(k, M.tbl[k], "void")))

\* bool for_each(Func&& op) const: the same body over const entries
map_lock_t_for_each_const(M, h, ord, vk, stop) ==
  IF M.null
    THEN [visited |-> <<>>, ret |-> TRUE]
    ELSE [visited |-> for_each_const_loop(M, h, ord, vk, stop, <<>>), ret |-> TRUE]

\* the log a visitor keeps: the entry, its shard and what the visitor answered
Logged(s, vs) == [i \in DOMAIN vs |-> [s |-> s, k |-> vs[i].k, h |-> vs[i].h, r |-> vs[i].r]]

\* ---- map_sharded_t::for_each --------------------------------------------
for_each_call(t, vk, stop) ==
  /\ op[t] = "idle"
  /\ Begin(t, "for_each", "lock", 0, 0, stop, vk, 0)

for_each_cs(t) ==
  /\ InCS(t, {"for_each"})
  /\ \E ord \in Orders(DOMAIN map_[idx[t]].tbl) :
       LET r == map_lock_t_for_each(map_[idx[t]], Heap, ord, vis[t], pred[t])
       IN /\ out' = [out EXCEPT ![t] = @ \o Logged(idx[t], r.visited)]
          /\ result' = [result EXCEPT ![t] = IF r.ret THEN 1 ELSE 0]
          /\ \/ /\ r.ret
                /\ NextShard(t)
                /\ UNCHANGED ret
             \/ /\ ~r.ret \/ LastShard(t)
                /\ Done(t)
                /\ ret' = [ret EXCEPT ![t] = Ret("void", 0, FALSE)]
                /\ UNCHANGED idx
  /\ Unlock(t)
  /\ UNCHANGED <<map_, payload, refcnt, size_, crashed, op, key, val, pred, vis,
                 total, calls, hist, pre>>

\* ---- map_sharded_t::copy ------------------------------------------------
\* std::vector<T>::max_size() for a 16-byte shared_ptr is 2^59 - 1
ExceedsMaxSize(s) == s[NumLimbs] >= 2^11

copy_call(t, P) ==
  /\ op[t] = "idle"
  /\ Begin(t, "copy", "reserve", 0, 0, P, "void", 0)

\* ret.reserve(size_.load(relaxed)): throws std::length_error beyond max_size
copy_reserve(t) ==
  /\ ~crashed
  /\ pc[t] = "reserve"
  /\ \/ /\ ~ExceedsMaxSize(size_)
        /\ pc' = [pc EXCEPT ![t] = "lock"]
        /\ UNCHANGED ret
     \/ /\ ExceedsMaxSize(size_)
        /\ Done(t)
        /\ ret' = [ret EXCEPT ![t] = Ret("length_error", 0, FALSE)]
  /\ UNCHANGED <<shared, crashed, op, key, val, pred, vis, idx, result, total,
                 out, calls, hist, pre>>

\* variant: only the first accepted entry of a shard is pushed
Pushed_first(h, vs, P) ==
  IF SelectSeq(vs, LAMBDA x : h.pl[x.h] \in P) = <<>> THEN <<>>
  ELSE <<Head(SelectSeq(vs, LAMBDA x : h.pl[x.h] \in P))>>

\* the lambda of copy: if (op(e.second)) ret.push_back(e.second)
Pushed(h, vs, P) == SelectSeq(vs, LAMBDA x : h.pl[x.h] \in P)
HandleSeq(vs) == [i \in DOMAIN vs |-> vs[i].h]

copy_cs(t) ==
  /\ InCS(t, {"copy"})
  /\ \E ord \in Orders(DOMAIN map_[idx[t]].tbl) :
       LET r == map_lock_t_for_each_const(map_[idx[t]], Heap, ord, "void", {})
           got == Pushed(Heap, r.visited, pred[t])
           h2 == CopyAll(Heap, HandleSeq(got))
       IN /\ out' = [out EXCEPT ![t] = @ \o Logged(idx[t], got)]
          /\ payload' = h2.pl
          /\ refcnt' = h2.rc
  /\ \/ NextShard(t) /\ UNCHANGED ret
     \/ /\ LastShard(t)
        /\ Done(t)
        /\ ret' = [ret EXCEPT ![t] = Ret("vector", Len(out'[t]), FALSE)]
        /\ UNCHANGED idx
  /\ Unlock(t)
  /\ UNCHANGED <<map_, size_, crashed, op, key, val, pred, vis, result, total,
                 calls, hist, pre>>

\* ---- the caller lets go of what the call returned -----------------------
HeldBy(t) ==
  IF op[t] = "find" /\ ret[t].kind = "handle" THEN <<ret[t].n>>
  ELSE IF op[t] = "copy" THEN HandleSeq(out[t])
  ELSE <<>>

Finish(t) ==
  /\ ~crashed
  /\ pc[t] = "done"
  /\ LET h2 == DestroyAll(Heap, HeldBy(t))
     IN payload' = h2.pl /\ refcnt' = h2.rc
  /\ op' = [op EXCEPT ![t] = "idle"]
  /\ pc' = [pc EXCEPT ![t] = "idle"]
  /\ key' = [key EXCEPT ![t] = 0]
  /\ val' = [val EXCEPT ![t] = 0]
  /\ pred' = [pred EXCEPT ![t] = {}]
  /\ vis' = [vis EXCEPT ![t] = "none"]
  /\ idx' = [idx EXCEPT ![t] = 0]
  /\ result' = [result EXCEPT ![t] = 0]
  /\ total' = [total EXCEPT ![t] = 0]
  /\ ret' = [ret EXCEPT ![t] = NoRet]
  /\ out' = [out EXCEPT ![t] = <<>>]
  /\ pre' = IF pre.by = t THEN NoSnap ELSE pre
  /\ UNCHANGED <<mtx, map_, size_, crashed, calls, hist>>

Next ==
  \/ \E t \in Threads, k \in Keys, v \in Vals : try_emplace_call(t, k, v)
  \/ \E t \in Threads : try_emplace_cs(t)
  \/ \E t \in Threads : try_emplace_fetch_add(t)
  \/ \E t \in Threads : size_call(t)
  \/ \E t \in Threads, k \in Keys : find_call(t, k)
  \/ \E t \in Threads : find_cs(t)
  \/ \E t \in Threads, k \in Keys : erase_call(t, k)
  \/ \E t \in Threads : erase_cs(t)
  \/ \E t \in Threads : erase_fetch_sub(t)
  \/ \E t \in Threads, P \in ValuePreds : erase_if_call(t, P)
  \/ \E t \in Threads : erase_if_cs(t)
  \/ \E t \in Threads : erase_if_fetch_sub(t)
  \/ \E t \in Threads, P \in ValuePreds : erase_one_call(t, P)
  \/ \E t \in Threads : erase_one_cs(t)
  \/ \E t \in Threads : erase_one_fetch_sub(t)
  \/ \E t \in Threads, P \in ValuePreds : for_each_call(t, "bool", P)
  \/ \E t \in Threads : for_each_call(t, "void", {})
  \/ \E t \in Threads : for_each_cs(t)
  \/ \E t \in Threads, P \in PredSets : copy_call(t, P)
  \/ \E t \in Threads : copy_reserve(t)
  \/ \E t \in Threads : copy_cs(t)
  \/ \E t \in Threads : Lock(t)
  \/ \E t \in Threads : Finish(t)

Spec == Init /\ [][Next]_vars

\* Fair scheduling: a thread that can run a step of its call eventually runs
\* it, and a thread waiting for a mutex that keeps becoming free eventually
\* gets it.
Run(t) ==
  \/ try_emplace_cs(t) \/ try_emplace_fetch_add(t)
  \/ find_cs(t)
  \/ erase_cs(t) \/ erase_fetch_sub(t)
  \/ erase_if_cs(t) \/ erase_if_fetch_sub(t)
  \/ erase_one_cs(t) \/ erase_one_fetch_sub(t)
  \/ for_each_cs(t)
  \/ copy_reserve(t) \/ copy_cs(t)
FairSpec ==
  /\ Spec
  /\ \A t \in Threads : WF_vars(Run(t)) /\ SF_vars(Lock(t))

TypeOK ==
  /\ \A s \in ShardIds : mtx[s] \in Threads \cup {NoThread}
  /\ \A s \in ShardIds : DOMAIN map_[s].tbl \subseteq Keys
  /\ \A e \in Elems : refcnt[e] >= 0

\* ---- the claims ----------------------------------------------------------
ShardOf(k) == get_sharded(Hash(k))
Present(k) == k \in DOMAIN map_[ShardOf(k)].tbl
Live == {<<s, k>> \in ShardIds \X Keys : k \in DOMAIN map_[s].tbl}
Returned(t, o) == op[t] = o /\ pc[t] = "done"

\* C1: find(k) on a key that is not present returns a null handle and never
\* fails, whether the shard's storage was never allocated or is allocated
\* without k.  Stated on the step that runs the shard's lookup.
C1_FindAbsentIsNull ==
  [][\A t \in Threads :
       (pc[t] = "cs" /\ op[t] = "find" /\ pc'[t] # "cs"
          /\ key[t] \notin DOMAIN map_[idx[t]].tbl)
       => (ret'[t].kind = "null" /\ ~crashed')]_vars

\* C2: of the try_emplace calls on a key made since the key was last absent,
\* exactly one returned inserted=true; the entry holds that call's value, and
\* so does what find returns; the other calls returned inserted=false.
C2_ExactlyOneInsertion ==
  /\ \A k \in Keys :
       /\ wins[k] <= 1
       /\ Present(k) <=> wins[k] = 1
       /\ Present(k) => payload[map_[ShardOf(k)].tbl[k]] = winVal[k]
  /\ nRem = 0 =>
       \A k \in Keys :
         /\ Cardinality({t \in Threads : /\ op[t] = "try_emplace"
                                         /\ pc[t] \in {"fetch_add", "done"}
                                         /\ key[t] = k /\ ret[t].ins}) <= 1
         /\ \A t \in Threads :
              /\ (Returned(t, "try_emplace") /\ key[t] = k /\ ~ret[t].ins) => Present(k)
              /\ (Returned(t, "find") /\ key[t] = k /\ ret[t].kind = "handle")
                   => payload[ret[t].n] = winVal[k]

\* two calls on one key with different values overlapped: one inserted and
\* has not yet counted, the other has returned inserted=false
C2_Witness ==
  \E t, u \in Threads :
    /\ op[t] = "try_emplace" /\ op[u] = "try_emplace"
    /\ key[t] = key[u] /\ val[t] # val[u]
    /\ pc[t] = "fetch_add" /\ pc[u] = "done"
    /\ ret[t].ins /\ ~ret[u].ins
    /\ payload[map_[ShardOf(key[t])].tbl[key[t]]] = val[t]

\* C3: with no try_emplace, erase, erase_if or erase_one in flight, size()
\* is N - M, the insertions that succeeded less the entries removed, which
\* is the number of live entries over all shards.
NoMutationInFlight == \A t \in Threads : op[t] \in Mutators => pc[t] = "done"
C3_CounterConvergence ==
  NoMutationInFlight =>
    /\ nIns >= nRem
    /\ size_ = SizeT(nIns - nRem)
    /\ nIns - nRem = Cardinality(Live)

C3_Witness ==
  /\ NoMutationInFlight
  /\ nIns = 2 /\ nRem = 1
  /\ size_ = SizeT(1)
  /\ \E t \in Threads : Returned(t, "erase_if") /\ ret[t].n = 1

\* C4: a shard's for_each with a boolean visitor that signals stop visits no
\* further entry and reports "not completed" (false); with no stop signal, or
\* a void visitor, it visits every entry once and reports "completed".
\* Stated on the step that runs the shard's loop.
C4_ShardForEachReports ==
  [][\A t \in Threads :
       (pc[t] = "cs" /\ op[t] = "for_each" /\ pc'[t] # "cs") =>
         LET new == SubSeq(out'[t], Len(out[t]) + 1, Len(out'[t]))
             stopped == \E i \in DOMAIN new : new[i].r = "false"
         IN /\ \A i \in DOMAIN new : new[i].s = idx[t]
            /\ stopped =>
                 /\ \A i \in DOMAIN new : new[i].r = "false" => i = Len(new)
                 /\ result'[t] = 0
            /\ ~stopped =>
                 /\ result'[t] = 1
                 /\ {new[i].k : i \in DOMAIN new} = DOMAIN map_[idx[t]].tbl
                 /\ Len(new) = Cardinality(DOMAIN map_[idx[t]].tbl)]_vars

\* C5: map_sharded_t::for_each visits the shards in increasing index order
\* and never invokes the visitor again once it has returned false.
C5_NoVisitAfterStop ==
  \A t \in Threads :
    op[t] = "for_each" =>
      \A i, j \in DOMAIN out[t] :
        i < j => (out[t][i].s <= out[t][j].s /\ out[t][i].r # "false")

\* C6: a handle find returned for a present key keeps its element alive and
\* unchanged while the caller holds it, whatever other threads erase or
\* insert; an element is released exactly when its last handle is gone.
HeldFind(t) == Returned(t, "find") /\ ret[t].kind = "handle"
MapCopies == {<<sk, map_[sk[1]].tbl[sk[2]]>> : sk \in Live}
CallerCopies ==
  UNION {{<<t, i, HeldBy(t)[i]>> : i \in DOMAIN HeldBy(t)} : t \in Threads}

C6_HandleSafety ==
  /\ \A t \in Threads :
       HeldFind(t) => (refcnt[ret[t].n] >= 1 /\ payload[ret[t].n] = ret[t].seen)
  /\ LET inMap == MapCopies
         held == CallerCopies
     IN \A e \in Elems :
          LET owners == Cardinality({x \in inMap : x[2] = e})
                          + Cardinality({x \in held : x[3] = e})
          IN /\ refcnt[e] = owners
             /\ payload[e] # 0 <=> owners > 0

\* a held handle whose entry another thread has erased since
C6_Witness ==
  \E t \in Threads :
    /\ HeldFind(t)
    /\ ~Present(key[t])
    /\ \A sk \in Live : map_[sk[1]].tbl[sk[2]] # ret[t].n
    /\ refcnt[ret[t].n] = 1
    /\ payload[ret[t].n] = ret[t].seen

\* ---- calls that ran with no mutating call of another thread in flight ----
Solo(t, o) == pre.by = t /\ Returned(t, o)
PreMatch(s, P) == {k \in DOMAIN pre.ent[s] : pre.ent[s][k].v \in P}
Keep(s, ks) == [k \in (DOMAIN pre.ent[s]) \ ks |-> pre.ent[s][k]]
PreHit(P) == {s \in ShardIds : PreMatch(s, P) # {}}
FirstHit(P) == CHOOSE s \in PreHit(P) : \A r \in PreHit(P) : s <= r

\* C7: erase_one scans the shards in index order and stops at the first one
\* where erase_if removes something: it returns that shard's count, takes it
\* off the counter and leaves the shards behind it as they were, matching
\* entries included; with no match anywhere it returns 0 and changes nothing.
C7_EraseOneFirstShard ==
  /\ \A t \in Threads :
       Solo(t, "erase_one") =>
         IF PreHit(pred[t]) = {}
           THEN /\ ret[t].n = 0
                /\ \A s \in ShardIds : Entries(s) = pre.ent[s]
                /\ size_ = pre.size
           ELSE /\ ret[t].n = Cardinality(PreMatch(FirstHit(pred[t]), pred[t]))
                /\ Entries(FirstHit(pred[t])) =
                     Keep(FirstHit(pred[t]), PreMatch(FirstHit(pred[t]), pred[t]))
                /\ \A s \in ShardIds \ {FirstHit(pred[t])} : Entries(s) = pre.ent[s]
                /\ size_ = fetch_sub(pre.size, ret[t].n)
  /\ \A t \in Threads :
       /\ (op[t] = "erase_one" /\ pc[t] \in {"lock", "cs"}) => (total[t] = 0 /\ result[t] = 0)
       /\ Returned(t, "erase_one") =>
            /\ ret[t].n = result[t]
            /\ ret[t].n = 0 => idx[t] = shard_num - 1

\* the first shard lost its match, a later shard still has one
C7_Witness ==
  \E t \in Threads :
    /\ Solo(t, "erase_one")
    /\ ret[t].n = 1
    /\ FirstHit(pred[t]) = 0
    /\ \E s \in ShardIds : s > 0 /\ \E k \in DOMAIN map_[s].tbl :
                                       payload[map_[s].tbl[k]] \in pred[t]

\* C8: with exactly one live entry satisfying the predicate, erase_one removes
\* that entry and no other, not even one of its own shard, returns 1, and
\* size() drops by exactly 1.
PreAll(P) == {sk \in ShardIds \X Keys : sk[2] \in PreMatch(sk[1], P)}
C8_EraseOneSingleMatch ==
  \A t \in Threads :
    (Solo(t, "erase_one") /\ Cardinality(PreAll(pred[t])) = 1) =>
      LET hit == CHOOSE sk \in PreAll(pred[t]) : TRUE
      IN /\ ret[t].n = 1
         /\ Entries(hit[1]) = Keep(hit[1], {hit[2]})
         /\ \A s \in ShardIds \ {hit[1]} : Entries(s) = pre.ent[s]
         /\ size_ = fetch_sub(pre.size, 1)
         /\ pre.size = SizeT(Cardinality(Live) + 1)

\* the removed entry shared its shard with an entry that stayed
C8_Witness ==
  \E t \in Threads :
    /\ Solo(t, "erase_one")
    /\ Cardinality(PreAll(pred[t])) = 1
    /\ \E s \in ShardIds :
         /\ Cardinality(DOMAIN pre.ent[s]) = 2
         /\ Cardinality(DOMAIN map_[s].tbl) = 1
    /\ size_ = SizeT(1)

\* C9: erase_if, run with no concurrent mutation, removes from every shard
\* every entry satisfying the predicate and no other, returns the sum of the
\* shards' counts and takes exactly that sum off the counter.
RECURSIVE PreCount(_, _)
PreCount(S, P) ==
  IF S = {} THEN 0
  ELSE LET s == CHOOSE x \in S : TRUE
       IN Cardinality(PreMatch(s, P)) + PreCount(S \ {s}, P)

C9_EraseIfEveryShard ==
  \A t \in Threads :
    Solo(t, "erase_if") =>
      /\ \A s \in ShardIds : Entries(s) = Keep(s, PreMatch(s, pred[t]))
      /\ ret[t].n = PreCount(ShardIds, pred[t])
      /\ size_ = fetch_sub(pre.size, ret[t].n)

\* entries went from two shards in one call
C9_Witness ==
  \E t \in Threads :
    /\ Solo(t, "erase_if")
    /\ ret[t].n = 2
    /\ \A s \in ShardIds : PreMatch(s, pred[t]) # {}
    /\ size_ = SizeT(0)

\* (the call is not one atomic step: an entry that satisfies the predicate,
\* inserted behind the scan, is still there when erase_if has returned)
C9_SurvivorBehindScan ==
  \E t \in Threads :
    /\ Returned(t, "erase_if")
    /\ \E k \in Keys : Present(k) /\ ShardOf(k) = 0
                         /\ payload[map_[0].tbl[k]] \in pred[t]
                         /\ \E u \in Threads : op[u] = "try_emplace" /\ key[u] = k /\ ret[u].ins

\* C10: copy() called with no mutation in flight returns the handle of every
\* live entry whose value satisfies the predicate, each once, and nothing
\* else; with the always-true predicate that is exactly size() elements.
Wanted(P) == {sk \in Live : payload[map_[sk[1]].tbl[sk[2]]] \in P}
C10_CopyComplete ==
  \A t \in Threads :
    Solo(t, "copy") =>
      /\ ret[t].kind = "vector"
      /\ ret[t].n = Len(out[t])
      /\ Len(out[t]) = Cardinality(Wanted(pred[t]))
      /\ {<<out[t][i].s, out[t][i].k>> : i \in DOMAIN out[t]} = Wanted(pred[t])
      /\ \A i \in DOMAIN out[t] : out[t][i].h = map_[out[t][i].s].tbl[out[t][i].k]
      /\ pred[t] = AlwaysTrue => size_ = SizeT(Len(out[t]))

\* a full copy of a map with two entries in one shard
C10_Witness ==
  \E t \in Threads :
    /\ Solo(t, "copy")
    /\ pred[t] = AlwaysTrue
    /\ Len(out[t]) = 2
    /\ out[t][1].s = out[t][2].s
    /\ out[t][1].h # out[t][2].h
    /\ size_ = SizeT(2)

\* C11: the capacity hint copy() takes from the counter is an efficiency
\* matter only: whatever value the counter holds when copy() reads it, the
\* call completes and returns the handles it visited.
C11_CopyNeverFails ==
  \A t \in Threads :
    Returned(t, "copy") =>
      /\ ret[t].kind = "vector"
      /\ ret[t].n = Len(out[t])

\* C12: a try_emplace on a key that is already present reports
\* inserted = false together with the entry that was there, leaves the stored
\* handle and its element as they were, changes no shard's key set and never
\* touches the counter.  Stated on the step that runs the shard's insertion.
C12_PresentKeyUntouched ==
  [][\A t \in Threads :
       (InCS(t, {"try_emplace"}) /\ pc'[t] # "cs" /\ Present(key[t])) =>
         /\ ret'[t] = Ret("entry", key[t], FALSE)
         /\ \A s \in ShardIds : map_'[s].tbl = map_[s].tbl
         /\ payload' = payload
         /\ refcnt' = refcnt
         /\ size_' = size_
         /\ pc'[t] = "done"]_vars
C12_Witness ==
  \E t \in Threads :
    /\ Returned(t, "try_emplace")
    /\ ~ret[t].ins
    /\ Present(key[t])
    /\ payload[map_[ShardOf(key[t])].tbl[key[t]]] # val[t]
    /\ size_ = SizeT(1)

\* C13: operations on one key are totally ordered by the owning shard's
\* lock, and every concurrent history of try_emplace, find and erase on a key
\* has the results of a sequential order that respects real time: each call
\* takes effect at one point between its start and its return (the step that
\* runs under the shard's lock), its result there is the one a sequential map
\* gives in that order, and after every step the shards hold exactly what that
\* sequential map holds.  A find of a present key returns the handle that was
\* inserted, an erase of it returns 1, a try_emplace inserts exactly when the
\* key is absent, and no find of an absent key returns an element.
SeqAgrees ==
  \A k \in Keys :
    lin'[k] = IF k \in DOMAIN map_'[ShardOf(k)].tbl
                THEN payload'[map_'[ShardOf(k)].tbl[k]] ELSE 0
TakesEffect(t, o) == op[t] = o /\ pc[t] = "cs" /\ pc'[t] # "cs"
C14_RoutingInvariant ==
  /\ DOMAIN map_ = 0..(shard_num - 1)
  /\ DOMAIN mtx = 0..(shard_num - 1)
  /\ \A s \in DOMAIN map_ : \A k \in DOMAIN map_[s].tbl : s = Hash(k) % shard_num
  /\ \A t \in Threads :
       op[t] \in {"find", "try_emplace", "erase"} => idx[t] = Hash(key[t]) % shard_num
C14_Witness ==
  /\ \A k \in Keys : Present(k)
  /\ \E k \in Keys : \E j \in Keys \ {k} : Hash(k) % shard_num = Hash(j) % shard_num
  /\ \E k \in Keys : \E j \in Keys : Hash(k) % shard_num # Hash(j) % shard_num

\* C15: mutual exclusion per shard.  At most one thread is inside a shard's
\* critical section, and it is the one recorded as holding the shard's mutex;
\* a shard's map changes only in a step of the thread holding its lock; and
\* a shard operation is one critical section: the step that runs its body was
\* entered with the lock held and leaves with the lock released.
InSection(s) == {t \in Threads : pc[t] = "cs" /\ idx[t] = s}
C15_MutualExclusion ==
  [][/\ \A s \in ShardIds :
          /\ Cardinality(InSection(s))' <= 1
          /\ InSection(s)' = {t \in Threads : mtx'[s] = t}
          /\ map_'[s] # map_[s] =>
               /\ InSection(s) = {mtx[s]}
               /\ mtx'[s] = NoThread
     /\ \A t \in Threads :
          (pc[t] = "cs" /\ pc'[t] # "cs") =>
             /\ mtx[idx[t]] = t
             /\ mtx'[idx[t]] = NoThread
             /\ \A s \in ShardIds \ {idx[t]} : mtx'[s] = mtx[s]]_vars
C15_Witness ==
  \E t \in Threads : \E u \in Threads \ {t} :
    /\ pc[t] = "cs" /\ mtx[idx[t]] = t
    /\ pc[u] = "lock" /\ idx[u] = idx[t]
    /\ op[t] = "try_emplace" /\ op[u] = "erase"

\* C16: no lock spans more than one shard.  A thread holds at most one shard
\* lock at any time, holds none outside a shard's critical section, and a
\* call that walks the shards has released shard i's lock before it asks for
\* the lock of shard i + 1.
LocksHeld(t) == {s \in ShardIds : mtx[s] = t}
C16_OneLockAtATime ==
  \A t \in Threads :
    /\ Cardinality(LocksHeld(t)) <= 1
    /\ pc[t] = "cs" => LocksHeld(t) = {idx[t]}
    /\ pc[t] # "cs" => LocksHeld(t) = {}
C16_Witness ==
  \E t \in Threads : \E u \in Threads \ {t} :
    /\ op[t] \in {"erase_if", "erase_one", "for_each", "copy"}
    /\ pc[t] = "cs" /\ idx[t] = shard_num - 1 /\ idx[t] > 0
    /\ LocksHeld(t) = {idx[t]}
    /\ LocksHeld(u) = {idx[t] - 1}

\* C17: progress.  Under fair scheduling every call that was started
\* eventually completes: no deadlock, and no call waits forever for a shard
\* lock.  (Visitors and predicates of the model terminate and never call
\* back into the map.)
C17_EveryCallCompletes ==
  \A t \in Threads : (pc[t] \notin {"idle", "done"}) ~> (pc[t] = "done")

\* C18: lazy allocation.  A shard's storage stays unallocated until the
\* first try_emplace routed to it and is allocated inside that call's critical
\* section; find, erase, erase_if, erase_one, for_each and copy on a shard
\* without storage leave it without storage and report absent, nothing
\* removed, or a completed pass with nothing visited; and storage, once
\* allocated, is never released, whatever is erased.
Unallocated(s) == map_[s].null
C18_LazyAllocation ==
  [][/\ \A s \in ShardIds :
          /\ (Unallocated(s) /\ ~Unallocated(s)') =>
               \E t \in Threads :
                 TakesEffect(t, "try_emplace") /\ idx[t] = s /\ mtx[s] = t
          /\ ~Unallocated(s) => ~Unallocated(s)'
          /\ Unallocated(s)' => map_'[s].tbl = EmptyTbl
     /\ \A t \in Threads :
          /\ TakesEffect(t, "try_emplace") => ~map_'[idx[t]].null
          /\ (pc[t] = "cs" /\ pc'[t] # "cs" /\ op[t] # "try_emplace"
                /\ Unallocated(idx[t])) =>
               /\ map_'[idx[t]].null
               /\ op[t] = "find" => ret'[t] = Ret("null", NullHandle, FALSE)
               /\ op[t] = "erase" => ret'[t] = Ret("count", 0, FALSE)
               /\ op[t] \in {"erase_if", "erase_one"} =>
                    result'[t] = 0 /\ total'[t] = total[t]
               /\ op[t] = "for_each" => result'[t] = 1 /\ out'[t] = out[t]
               /\ op[t] = "copy" => out'[t] = out[t]
               /\ ~crashed']_vars
C18_Witness ==
  \E t \in Threads : \E s \in ShardIds :
    /\ Returned(t, "erase") /\ ret[t].n = 0
    /\ Unallocated(idx[t])
    /\ ~Unallocated(s) /\ map_[s].tbl = EmptyTbl
    /\ nIns = 1 /\ nRem = 1

\* C19: counter accounting.  In every reachable state the counter equals the
\* number of live entries, minus the insertions that have taken effect but
\* not yet run their increment, plus the removals that have taken effect but
\* not yet run their decrement, modulo 2^64.  (So find, size, for_each and
\* copy, which change none of the three, never change the counter.)
PendingAdd == Cardinality({t \in Threads : pc[t] = "fetch_add"})
RECURSIVE SumResult(_)
SumResult(S) ==
  IF S = {} THEN 0
  ELSE LET t == CHOOSE u \in S : TRUE IN result[t] + SumResult(S \ {t})
PendingSub == SumResult({t \in Threads : pc[t] = "fetch_sub"})
C19_CounterAccounting ==
  AddLimbs(size_, 1, PendingAdd) = AddLimbs(SizeT(Cardinality(Live)), 1, PendingSub)
C19_Witness ==
  /\ PendingAdd = 1
  /\ PendingSub = 0
  /\ Live = {}
  /\ size_ = [i \in Limbs |-> Limb - 1]
  /\ \E t \in Threads : op[t] = "copy" /\ pc[t] = "reserve"

\* C20: the unsigned counter never wraps below zero: in every reachable
\* state the value size() can return is at most the number of insertions
\* that have succeeded so far, and an erase of k that runs between another
\* thread's insertion of k and that thread's increment does not leave the
\* counter at 2^64 - 1.
C20_NeverBelowZero ==
  /\ \A i \in Limbs \ {1} : size_[i] = 0
  /\ size_[1] <= nIns
  /\ \A t \in Threads : Returned(t, "size") => ret[t].sz # [i \in Limbs |-> Limb - 1]
====
